---------------------------- MODULE Spec2Model ----------------------------
(***************************************************************************)
(* A model of the QA chatbot of src/app.py: the session message list, the  *)
(* chat_logs directory with its JSON log files, the wall clock that names  *)
(* the files, and one action per user interaction (one Streamlit script    *)
(* run per interaction).  Texts are TLA+ strings; json.dump and json.load  *)
(* are modelled character by character.                                    *)
(***************************************************************************)
EXTENDS Naturals, Sequences, FiniteSets, TLC

VARIABLES
    messages,   \* st.session_state.messages
    envKey,     \* os.getenv("GEMINI_API_KEY"), "" when unset
    inputKey,   \* the value of the "Enter Gemini API Key" text input
    now,        \* the wall clock read by datetime.now(), to the second
    dirExists,  \* os.path.exists("chat_logs")
    files,      \* chat_logs: file name -> text of the file
    order,      \* history: the file names in the order they were first created
    saved,      \* history: file name -> the messages of the completed save
                \* that wrote the file's present text
    last        \* history: what the last script run did

vars == <<messages, envKey, inputKey, now, dirExists, files, order, saved, last>>

---------------------------------------------------------------------------
(* Bounds of the exploration. *)

\* messages a session may hold
MaxMsgs == 4
\* seconds the clock may advance in Spec
MaxTicks == 1
\* seconds the clock may advance in SpecListing
ListTicks == 6

---------------------------------------------------------------------------
(* Characters and Python's str ordering (by code point). *)

\* the printable ASCII characters from code 32 to 95, and from 97 to 126
AsciiLow == " !\"#$%&'()*+,-./0123456789:;<=>?@ABCDEFGHIJKLMNOPQRSTUVWXYZ[\\]^_"
AsciiHigh == "abcdefghijklmnopqrstuvwxyz{|}~"

Ch(s, i) == SubSeq(s, i, i)

Min(a, b) == IF a < b THEN a ELSE b

\* ord(c) of every modelled character
OrdTable ==
    [c \in {Ch(AsciiLow, i) : i \in 1..Len(AsciiLow)} |->
        31 + (CHOOSE i \in 1..Len(AsciiLow) : Ch(AsciiLow, i) = c)]
    @@ [c \in {Ch(AsciiHigh, i) : i \in 1..Len(AsciiHigh)} |->
        96 + (CHOOSE i \in 1..Len(AsciiHigh) : Ch(AsciiHigh, i) = c)]
    @@ ("\n" :> 10) @@ ("\t" :> 9)

Ord(c) == OrdTable[c]

RECURSIVE FirstDifference(_, _, _)
\* the first position from i at which a and b differ, or at which one ends
FirstDifference(a, b, i) ==
    IF i > Len(a) \/ i > Len(b) \/ Ch(a, i) # Ch(b, i) THEN i
    ELSE FirstDifference(a, b, i + 1)

\* a < b for Python strings: the first differing character decides, a proper
\* prefix is smaller
StrLess(a, b) ==
    LET i == FirstDifference(a, b, 1) IN
    IF i > Len(b) THEN FALSE
    ELSE IF i > Len(a) THEN TRUE
    ELSE Ord(Ch(a, i)) < Ord(Ch(b, i))

---------------------------------------------------------------------------
(* The wall clock and datetime.now().strftime("%Y%m%d_%H%M%S"). *)

IsLeap(y) == (y % 4 = 0 /\ y % 100 # 0) \/ y % 400 = 0

DaysIn(y, m) ==
    IF m = 2 THEN (IF IsLeap(y) THEN 29 ELSE 28)
    ELSE IF m \in {4, 6, 9, 11} THEN 30 ELSE 31

\* the clock one second later
NextSecond(t) ==
    IF t.S < 59 THEN [t EXCEPT !.S = t.S + 1]
    ELSE IF t.M < 59 THEN [t EXCEPT !.S = 0, !.M = t.M + 1]
    ELSE IF t.H < 23 THEN [t EXCEPT !.S = 0, !.M = 0, !.H = t.H + 1]
    ELSE IF t.d < DaysIn(t.Y, t.m)
         THEN [t EXCEPT !.S = 0, !.M = 0, !.H = 0, !.d = t.d + 1]
    ELSE IF t.m < 12
         THEN [t EXCEPT !.S = 0, !.M = 0, !.H = 0, !.d = 1, !.m = t.m + 1]
    ELSE [t EXCEPT !.S = 0, !.M = 0, !.H = 0, !.d = 1, !.m = 1, !.Y = t.Y + 1]

RECURSIVE SecondsAfter(_, _)
SecondsAfter(t, n) == IF n = 0 THEN t ELSE SecondsAfter(NextSecond(t), n - 1)

Digit(d) == Ch("0123456789", d + 1)

RECURSIVE Pad(_, _)
\* n in decimal, zero-padded to w digits (%m, %d, %H, %M, %S: w = 2; %Y: w = 4)
Pad(n, w) == IF w = 0 THEN "" ELSE Pad(n \div 10, w - 1) \o Digit(n % 10)

\* strftime("%Y%m%d_%H%M%S")
Strftime(t) ==
    Pad(t.Y, 4) \o Pad(t.m, 2) \o Pad(t.d, 2) \o "_"
        \o Pad(t.H, 2) \o Pad(t.M, 2) \o Pad(t.S, 2)

\* the name, inside chat_logs, of the log saved at t
FileName(timestamp) == "chat_" \o timestamp \o ".json"

---------------------------------------------------------------------------
(* json.dump(chat_data, f, indent=2), with ensure_ascii left at its default. *)

\* a variant that leaves the double quote as it is
EscapeCharNoQuote(c) ==
    IF c = "\\" THEN "\\\\"
    ELSE IF c = "\n" THEN "\\n"
    ELSE IF c = "\t" THEN "\\t"
    ELSE c

\* one character of a string as the encoder writes it
EscapeChar(c) ==
    IF c = "\"" THEN "\\\""
    ELSE IF c = "\\" THEN "\\\\"
    ELSE IF c = "\n" THEN "\\n"
    ELSE IF c = "\t" THEN "\\t"
    ELSE c

RECURSIVE Escape(_)
Escape(s) == IF s = "" THEN "" ELSE EscapeChar(Head(s)) \o Escape(Tail(s))

DumpStr(s) == "\"" \o Escape(s) \o "\""

\* a message dict, nested two levels deep: its keys in insertion order
DumpMessage(m) ==
    "{\n      \"role\": " \o DumpStr(m["role"])
        \o ",\n      \"content\": " \o DumpStr(m["content"]) \o "\n    }"

RECURSIVE DumpItems(_)
DumpItems(ms) ==
    IF Len(ms) = 1 THEN DumpMessage(ms[1])
    ELSE DumpMessage(ms[1]) \o ",\n    " \o DumpItems(Tail(ms))

DumpList(ms) ==
    IF ms = <<>> THEN "[]" ELSE "[\n    " \o DumpItems(ms) \o "\n  ]"

\* json.dumps: the text of {"timestamp": timestamp, "messages": ms}
JsonDumps(timestamp, ms) ==
    "{\n  \"timestamp\": " \o DumpStr(timestamp)
        \o ",\n  \"messages\": " \o DumpList(ms) \o "\n}"

---------------------------------------------------------------------------
(* json.load(f): objects, arrays and strings (the values a log holds).  A  *)
(* parse returns [ok, kind, val, pos]: whether it succeeded, the kind of   *)
(* value ("obj", "arr", "str"), the value (an object as a function of its  *)
(* keys, an array as a sequence, a string as a string) and the position    *)
(* after it.                                                               *)

ParseFail == [ok |-> FALSE, kind |-> "", val |-> "", pos |-> 0]
Parsed(k, v, p) == [ok |-> TRUE, kind |-> k, val |-> v, pos |-> p]

IsWs(c) == c \in {" ", "\n", "\t"}

RECURSIVE SkipWs(_, _)
SkipWs(s, i) == IF i <= Len(s) /\ IsWs(Ch(s, i)) THEN SkipWs(s, i + 1) ELSE i

\* the character an escape \e stands for, "" when \e is no escape
Unescape(e) ==
    IF e = "\"" THEN "\""
    ELSE IF e = "\\" THEN "\\"
    ELSE IF e = "/" THEN "/"
    ELSE IF e = "n" THEN "\n"
    ELSE IF e = "t" THEN "\t"
    ELSE ""

RECURSIVE ScanString(_, _, _)
\* the string whose opening quote is before position i
ScanString(s, i, acc) ==
    IF i > Len(s) THEN ParseFail
    ELSE LET c == Ch(s, i) IN
         IF c = "\"" THEN Parsed("str", acc, i + 1)
         ELSE IF c = "\\"
              THEN IF i + 1 > Len(s) \/ Unescape(Ch(s, i + 1)) = "" THEN ParseFail
                   ELSE ScanString(s, i + 2, acc \o Unescape(Ch(s, i + 1)))
         ELSE IF c \in {"\n", "\t"} THEN ParseFail
         ELSE ScanString(s, i + 1, acc \o c)

RECURSIVE ParseValue(_, _)
RECURSIVE ParseMembers(_, _, _)
RECURSIVE ParseElements(_, _, _)

\* the members of an object from position i (a key's opening quote is due)
ParseMembers(s, i, acc) ==
    IF i > Len(s) \/ Ch(s, i) # "\"" THEN ParseFail
    ELSE LET k == ScanString(s, i + 1, "") IN
         IF ~k.ok THEN ParseFail
         ELSE LET c == SkipWs(s, k.pos) IN
              IF c > Len(s) \/ Ch(s, c) # ":" THEN ParseFail
              ELSE LET v == ParseValue(s, SkipWs(s, c + 1)) IN
                   IF ~v.ok THEN ParseFail
                   ELSE LET obj == (k.val :> v.val) @@ acc
                            e == SkipWs(s, v.pos)
                        IN  IF e > Len(s) THEN ParseFail
                            ELSE IF Ch(s, e) = "}" THEN Parsed("obj", obj, e + 1)
                            ELSE IF Ch(s, e) = ","
                                 THEN ParseMembers(s, SkipWs(s, e + 1), obj)
                            ELSE ParseFail

\* the elements of an array from position i
ParseElements(s, i, acc) ==
    LET v == ParseValue(s, i) IN
    IF ~v.ok THEN ParseFail
    ELSE LET arr == Append(acc, v.val)
             e == SkipWs(s, v.pos)
         IN  IF e > Len(s) THEN ParseFail
             ELSE IF Ch(s, e) = "]" THEN Parsed("arr", arr, e + 1)
             ELSE IF Ch(s, e) = "," THEN ParseElements(s, SkipWs(s, e + 1), arr)
             ELSE ParseFail

\* the value that starts at position i
ParseValue(s, i) ==
    IF i > Len(s) THEN ParseFail
    ELSE LET c == Ch(s, i) IN
         IF c = "\"" THEN ScanString(s, i + 1, "")
         ELSE IF c = "{"
              THEN LET j == SkipWs(s, i + 1) IN
                   IF j <= Len(s) /\ Ch(s, j) = "}" THEN Parsed("obj", <<>>, j + 1)
                   ELSE ParseMembers(s, j, <<>>)
         ELSE IF c = "["
              THEN LET j == SkipWs(s, i + 1) IN
                   IF j <= Len(s) /\ Ch(s, j) = "]" THEN Parsed("arr", <<>>, j + 1)
                   ELSE ParseElements(s, j, <<>>)
         ELSE ParseFail

\* json.loads: one value, then only whitespace
JsonLoads(s) ==
    LET v == ParseValue(s, SkipWs(s, 1)) IN
    IF v.ok /\ SkipWs(s, v.pos) > Len(s) THEN v ELSE ParseFail


---------------------------------------------------------------------------
(* What the user types and what the environment answers. *)

\* prompts typed into st.chat_input
Prompts == {"2+2?\n\"a\\b\""}
\* response.text of a successful generation
ReplyTexts == {"4"}
\* str(e) of an exception raised at the gateway
ErrorTexts == {"429 quota"}
\* where get_gemini_response may fail: building the model, the generation
\* call, reading response.text (model_name only selects the remote model: the
\* outcome is the environment's choice whichever name is sent)
GatewayStages == {"GenerativeModel", "generate_content", "text"}
GatewayOutcomes ==
    {[fails |-> "ok", text |-> t] : t \in ReplyTexts}
        \cup {[fails |-> g, text |-> e] : g \in GatewayStages, e \in ErrorTexts}
\* what the file system may do to save_chat_log: nothing, or fail os.makedirs,
\* fail open(filename, 'w'), or fail json.dump after part of the text is out
\* (n characters reach the file before a failed json.dump)
PartialLens == {20}
SaveOutcomes ==
    {[fails |-> f, n |-> 0] : f \in {"ok", "makedirs", "open"}}
        \cup {[fails |-> "write", n |-> n] : n \in PartialLens}
\* what the file system may do to load_chat_log: nothing, or fail open
LoadOutcomes == {"ok", "open"}
\* texts another program may leave in a log file: JSON with no "messages" key
ForeignTexts == {"{}"}
\* a key typed into the sidebar
KeyTexts == {"", "AIza"}

\* the instant the exploration starts at
Start == [Y |-> 2025, m |-> 12, d |-> 31, H |-> 23, M |-> 59, S |-> 59]
StartListing == [Y |-> 2025, m |-> 12, d |-> 31, H |-> 23, M |-> 59, S |-> 57]

\* the record a script run leaves in last
Did(kind, arg, env, fault, warned, error, calls, reply) ==
    [kind |-> kind, arg |-> arg, env |-> env, fault |-> fault,
     warned |-> warned, error |-> error, calls |-> calls, reply |-> reply]

---------------------------------------------------------------------------
(* json.dump and json.load on the texts the exploration meets: the encoder *)
(* and the decoder are applied once to each such text, and directly to any *)
(* other.                                                                  *)

KnownReplies == ReplyTexts \cup {"Error: " \o e : e \in ErrorTexts}

KnownTurns ==
    {<<[role |-> "user", content |-> p], [role |-> "assistant", content |-> r]>> :
        p \in Prompts, r \in KnownReplies}

RECURSIVE KnownSessions(_)
KnownSessions(n) ==
    IF n < 2 THEN {<<>>}
    ELSE LET shorter == KnownSessions(n - 2)
         IN  shorter \cup {ms \o t : ms \in shorter, t \in KnownTurns}

KnownStamps ==
    {Strftime(SecondsAfter(Start, k)) : k \in 0..MaxTicks}
        \cup {Strftime(SecondsAfter(StartListing, k)) : k \in 0..ListTicks}

DumpTable ==
    [x \in KnownStamps \X KnownSessions(MaxMsgs) |-> JsonDumps(x[1], x[2])] @@ <<>>

KnownTexts ==
    LET dumped == {DumpTable[x] : x \in DOMAIN DumpTable}
    IN  dumped \cup ForeignTexts
            \cup {SubSeq(t, 1, Min(n, Len(t))) : t \in dumped, n \in PartialLens}

LoadTable == [text \in KnownTexts |-> JsonLoads(text)] @@ <<>>

JsonDump(timestamp, ms) ==
    IF <<timestamp, ms>> \in DOMAIN DumpTable THEN DumpTable[<<timestamp, ms>>]
    ELSE JsonDumps(timestamp, ms)

JsonLoad(text) ==
    IF text \in DOMAIN LoadTable THEN LoadTable[text] ELSE JsonLoads(text)

---------------------------------------------------------------------------
(* The functions of app.py. *)

\* f without the argument x
Without(f, x) == [y \in DOMAIN f \ {x} |-> f[y]]

\* the text a failed json.dump leaves: the first n characters
PartialText(text, n) == SubSeq(text, 1, Min(n, Len(text)))

\* os.makedirs can fail only when it is called
SaveApplicable(o) == o.fails = "makedirs" => ~dirExists

\* save_chat_log(msgs) under the file system's outcome o: whether it raised,
\* and the directory and its files afterwards
SaveChatLog(msgs, o) ==
    LET timestamp == Strftime(now)
        filename == FileName(timestamp)
        chat_data == JsonDump(timestamp, msgs)
        created == IF filename \in DOMAIN files THEN order
                   ELSE Append(order, filename)
    IN  IF o.fails = "makedirs"
        THEN [raised |-> TRUE, dir |-> dirExists, files |-> files,
              order |-> order, saved |-> saved]
        ELSE IF o.fails = "open"
        THEN [raised |-> TRUE, dir |-> TRUE, files |-> files,
              order |-> order, saved |-> saved]
        ELSE IF o.fails = "write"
        THEN [raised |-> TRUE, dir |-> TRUE,
              files |-> (filename :> PartialText(chat_data, o.n)) @@ files,
              order |-> created, saved |-> Without(saved, filename)]
        ELSE [raised |-> FALSE, dir |-> TRUE,
              files |-> (filename :> chat_data) @@ files,
              order |-> created, saved |-> (filename :> msgs) @@ saved]

\* load_chat_log(filename) under the file system's outcome o: whether the
\* except branch ran (st.error), whether an exception left the function, and
\* the value of chat_data["messages"].  open, json.load and the subscript
\* raise subclasses of Exception, which the except clause catches; st.rerun()
\* after the assignment leaves by a BaseException that it does not catch.
LoadChatLog(filename, o) ==
    IF o = "open" \/ filename \notin DOMAIN files
    THEN [failed |-> TRUE, raised |-> FALSE, messages |-> <<>>]
    ELSE LET chat_data == JsonLoad(files[filename]) IN
         IF ~chat_data.ok
         THEN [failed |-> TRUE, raised |-> FALSE, messages |-> <<>>]
         ELSE IF chat_data.kind # "obj" \/ "messages" \notin DOMAIN chat_data.val
              THEN [failed |-> TRUE, raised |-> FALSE, messages |-> <<>>]
         ELSE [failed |-> FALSE, raised |-> FALSE,
               messages |-> chat_data.val["messages"]]

\* a variant that resets the session before the file is read and parsed
MessagesAfterLoadEager(ms, r) == r.messages

\* the session after load_chat_log: assigned only when nothing failed
MessagesAfterLoad(ms, r) == IF r.failed THEN ms ELSE r.messages

\* a variant without the try/except: a gateway failure propagates
GetGeminiResponseUncaught(prompt, out) ==
    IF out.fails = "ok" THEN [raised |-> FALSE, value |-> out.text]
    ELSE [raised |-> TRUE, value |-> ""]

\* get_gemini_response(prompt, model_name) under the gateway's outcome
GetGeminiResponse(prompt, out) ==
    IF out.fails = "ok" THEN [raised |-> FALSE, value |-> out.text]
    ELSE [raised |-> FALSE, value |-> "Error: " \o out.text]

\* a variant with the role of the other append
UserMessageAsAssistant(prompt) == [role |-> "assistant", content |-> prompt]

\* the dict appended for the user's prompt
UserMessage(prompt) == [role |-> "user", content |-> prompt]

\* the dict appended for the gateway's answer
AssistantMessage(response) == [role |-> "assistant", content |-> response]

\* api_key: the environment variable first, then the text input
ApiKey == IF envKey # "" THEN envKey ELSE inputKey

\* a variant that tests "api_key is not None": the text input returns ""
HasKeyNotNone == TRUE

\* "if not api_key" at the chat input
HasKey == ApiKey # ""

\* a variant that saves whatever the session holds
ShouldSaveAlways(ms) == TRUE

\* "if st.session_state.messages" before a save
ShouldSave(ms) == ms # <<>>

\* a variant that clears the session whether or not the save raised
MessagesAfterNewChatAlways(ms, raised) == <<>>

\* the session after New Chat: line 111 runs only when line 110 did not raise
MessagesAfterNewChat(ms, raised) == IF raised THEN ms ELSE <<>>

RECURSIVE SortedAscending(_)
\* a variant without reverse=True
SortedAscending(names) ==
    IF names = {} THEN <<>>
    ELSE LET low == CHOOSE x \in names : \A y \in names \ {x} : StrLess(x, y)
         IN  <<low>> \o SortedAscending(names \ {low})

RECURSIVE SortedReverse(_)
\* sorted(names, reverse=True)
SortedReverse(names) ==
    IF names = {} THEN <<>>
    ELSE LET top == CHOOSE x \in names : \A y \in names \ {x} : StrLess(y, x)
         IN  <<top>> \o SortedReverse(names \ {top})

\* the most recent logs shown: log_files[:5]
RecentN == 5

\* log_files
LogFiles == IF dirExists THEN SortedReverse(DOMAIN files) ELSE <<>>

\* the files a load button is drawn for
RecentLogs ==
    LET log_files == LogFiles
    IN  SubSeq(log_files, 1, Min(RecentN, Len(log_files)))


---------------------------------------------------------------------------
(* The state after construction, and one action per script run. *)

InitAt(t) ==
    /\ messages = <<>>
    /\ envKey \in KeyTexts
    /\ inputKey = ""
    /\ now = t
    /\ dirExists = FALSE
    /\ files = <<>>
    /\ order = <<>>
    /\ saved = <<>>
    /\ last = Did("start", "", "ok", FALSE, FALSE, FALSE, 0, "")

Init == InitAt(Start)

\* a second passes
TickUntil(end) ==
    /\ now # end
    /\ now' = NextSecond(now)
    /\ last' = Did("Tick", "", "ok", FALSE, FALSE, FALSE, 0, "")
    /\ UNCHANGED <<messages, envKey, inputKey, dirExists, files, order, saved>>

Tick == TickUntil(SecondsAfter(Start, MaxTicks))

\* the user edits the key in the sidebar, drawn only when the environment
\* variable is not set
EnterApiKey ==
    /\ envKey = ""
    /\ \E k \in KeyTexts :
        /\ k # inputKey
        /\ inputKey' = k
        /\ last' = Did("EnterApiKey", k, "ok", FALSE, k = "", FALSE, 0, "")
    /\ UNCHANGED <<messages, envKey, now, dirExists, files, order, saved>>

\* "Clear Chat"
ClearChat ==
    /\ messages' = <<>>
    /\ last' = Did("ClearChat", "", "ok", FALSE, ~HasKey, FALSE, 0, "")
    /\ UNCHANGED <<envKey, inputKey, now, dirExists, files, order, saved>>

\* "New Chat" under the file system's outcome o
NewChatWith(o) ==
    IF ShouldSave(messages)
    THEN LET r == SaveChatLog(messages, o) IN
         /\ SaveApplicable(o)
         /\ dirExists' = r.dir
         /\ files' = r.files
         /\ order' = r.order
         /\ saved' = r.saved
         /\ messages' = MessagesAfterNewChat(messages, r.raised)
         /\ last' = Did("NewChat", "save", o.fails, r.raised, ~HasKey, FALSE,
                        0, "")
         /\ UNCHANGED <<envKey, inputKey, now>>
    ELSE /\ o.fails = "ok"
         /\ messages' = <<>>
         /\ last' = Did("NewChat", "no messages", "ok", FALSE, ~HasKey, FALSE,
                        0, "")
         /\ UNCHANGED <<envKey, inputKey, now, dirExists, files, order, saved>>

NewChat == \E o \in SaveOutcomes : NewChatWith(o)

\* "Save Current Chat" under the file system's outcome o
SaveCurrentChatWith(o) ==
    IF ShouldSave(messages)
    THEN LET r == SaveChatLog(messages, o) IN
         /\ SaveApplicable(o)
         /\ dirExists' = r.dir
         /\ files' = r.files
         /\ order' = r.order
         /\ saved' = r.saved
         /\ last' = Did("SaveCurrentChat", "save", o.fails, r.raised, ~HasKey,
                        FALSE, 0, "")
         /\ UNCHANGED <<messages, envKey, inputKey, now>>
    ELSE /\ o.fails = "ok"
         /\ last' = Did("SaveCurrentChat", "no messages", "ok", FALSE, TRUE,
                        FALSE, 0, "")
         /\ UNCHANGED <<messages, envKey, inputKey, now, dirExists, files,
                        order, saved>>

SaveCurrentChat == \E o \in SaveOutcomes : SaveCurrentChatWith(o)

\* a click on the button of one of the recent logs
LoadChat ==
    \E log_file \in (LET recent == RecentLogs
                     IN  {recent[i] : i \in 1..Len(recent)}),
       o \in LoadOutcomes :
        LET r == LoadChatLog(log_file, o)
        IN  /\ messages' = MessagesAfterLoad(messages, r)
            /\ last' = Did("LoadChat", log_file, o, r.raised, ~HasKey,
                           r.failed, 0, "")
            /\ UNCHANGED <<envKey, inputKey, now, dirExists, files, order,
                           saved>>

\* the user submits a prompt, and the gateway answers with out
ChatInputWith(prompt, out) ==
    IF ~HasKey
    THEN /\ out.fails = "ok"
         /\ last' = Did("ChatInput", prompt, "ok", FALSE, TRUE, FALSE, 0, "")
         /\ UNCHANGED <<messages, envKey, inputKey, now, dirExists, files,
                        order, saved>>
    ELSE LET asked == Append(messages, UserMessage(prompt))
             response == GetGeminiResponse(prompt, out)
         IN  /\ Len(messages) + 2 <= MaxMsgs
             /\ messages' =
                    IF response.raised THEN asked
                    ELSE Append(asked, AssistantMessage(response.value))
             /\ last' = Did("ChatInput", prompt, out.fails, response.raised,
                            FALSE, FALSE, 1,
                            IF response.raised THEN "" ELSE response.value)
             /\ UNCHANGED <<envKey, inputKey, now, dirExists, files, order,
                            saved>>

ChatInput == \E prompt \in Prompts, out \in GatewayOutcomes :
                 ChatInputWith(prompt, out)

\* another program overwrites a log file
ExternalWrite ==
    /\ \E f \in DOMAIN files, text \in ForeignTexts :
        /\ files[f] # text
        /\ files' = [files EXCEPT ![f] = text]
        /\ saved' = Without(saved, f)
    /\ last' = Did("ExternalWrite", "", "ok", FALSE, FALSE, FALSE, 0, "")
    /\ UNCHANGED <<messages, envKey, inputKey, now, dirExists, order>>

Next ==
    \/ Tick
    \/ EnterApiKey
    \/ ClearChat
    \/ NewChat
    \/ SaveCurrentChat
    \/ LoadChat
    \/ ChatInput
    \/ ExternalWrite

Spec == Init /\ [][Next]_vars

---------------------------------------------------------------------------
(* The runs that fill the log directory: the key comes from the           *)
(* environment, the gateway answers, every save succeeds, and the clock    *)
(* runs long enough for more logs than the sidebar shows.                  *)

InitListing == InitAt(StartListing) /\ envKey # ""

TickListing == TickUntil(SecondsAfter(StartListing, ListTicks))

ChatInputAnswered ==
    \E prompt \in Prompts, text \in ReplyTexts :
        ChatInputWith(prompt, [fails |-> "ok", text |-> text])

NewChatSaved == NewChatWith([fails |-> "ok", n |-> 0])

SaveCurrentChatSaved == SaveCurrentChatWith([fails |-> "ok", n |-> 0])

NextListing ==
    \/ TickListing
    \/ ChatInputAnswered
    \/ NewChatSaved
    \/ SaveCurrentChatSaved

SpecListing == InitListing /\ [][NextListing]_vars


---------------------------------------------------------------------------
(* The properties. *)

\* s begins with p
StartsWith(s, p) == Len(s) >= Len(p) /\ SubSeq(s, 1, Len(p)) = p

\* file f loads, when it can be opened, to the messages ms
LoadsTo(f, ms) ==
    LET r == LoadChatLog(f, "ok") IN ~r.failed /\ ~r.raised /\ r.messages = ms

ProgramKinds == {"ChatInput", "ClearChat", "NewChat", "SaveCurrentChat", "LoadChat"}

\* C1: round trip.  Every file whose present text a completed save of M wrote
\* loads without failure to M, and a load of such a file that opens it leaves
\* the session equal to M: same length, same order, same role and content.
RoundTrip ==
    /\ \A f \in DOMAIN saved : LoadsTo(f, saved[f])
    /\ (last.kind = "LoadChat" /\ last.env = "ok" /\ last.arg \in DOMAIN saved)
           => (~last.error /\ messages = saved[last.arg])

\* a two-turn session, one reply a gateway error, saved and loaded back
RoundTripWitness ==
    /\ last.kind = "LoadChat" /\ last.env = "ok" /\ ~last.error
    /\ last.arg \in DOMAIN saved
    /\ Len(messages) = 4
    /\ \E i \in 1..4 : StartsWith(messages[i]["content"], "Error:")

\* C2: New Chat on a non-empty session whose save raises nothing adds exactly
\* one file to the directory, that file holds the session's messages, and the
\* session is empty afterwards (stated for a directory that holds nothing but
\* logs of completed saves).
NewChatAddsOneFile ==
    [][(/\ last'.kind = "NewChat" /\ ~last'.fault /\ messages # <<>>
        /\ DOMAIN files = DOMAIN saved)
           => /\ Cardinality(DOMAIN files') = Cardinality(DOMAIN files) + 1
              /\ \E f \in DOMAIN files' \ DOMAIN files :
                     LET r == LoadChatLog(f, "ok")'
                     IN  ~r.failed /\ r.messages = messages
              /\ messages' = <<>>]_vars

\* C3: no run of the program that raises nothing changes a log that a save
\* completed: every such file is still there with the text it had.
LogFilesNeverChange ==
    [][(last'.kind \in ProgramKinds /\ ~last'.fault)
           => \A f \in DOMAIN saved :
                  f \in DOMAIN files' /\ files'[f] = files[f]]_vars

\* the reasons load_chat_log fails: the file cannot be opened, its text is
\* not JSON, or the JSON is no object with a "messages" key
LoadFails(f, env) ==
    \/ env = "open"
    \/ f \notin DOMAIN files
    \/ ~JsonLoad(files[f]).ok
    \/ JsonLoad(files[f]).kind # "obj"
    \/ "messages" \notin DOMAIN JsonLoad(files[f]).val

\* C4: a load that fails reports the error, raises nothing and leaves the
\* session's messages as they were.
FailedLoadKeepsSession ==
    [][(last'.kind = "LoadChat" /\ LoadFails(last'.arg, last'.env))
           => (last'.error /\ ~last'.fault /\ messages' = messages)]_vars

\* a non-empty session after the load of a JSON text with no "messages" key
FailedLoadWitness ==
    /\ last.kind = "LoadChat" /\ last.env = "ok" /\ last.error
    /\ files[last.arg] \in ForeignTexts
    /\ messages # <<>>

\* C5: a gateway failure at any stage raises nothing: the turn ends with the
\* prompt and then an assistant message that begins with "Error:".
GatewayFailureIsText ==
    (last.kind = "ChatInput" /\ last.calls = 1 /\ last.env \in GatewayStages)
        => /\ ~last.fault
           /\ StartsWith(last.reply, "Error:")
           /\ Len(messages) >= 2
           /\ messages[Len(messages) - 1] =
                  [role |-> "user", content |-> last.arg]
           /\ messages[Len(messages)] =
                  [role |-> "assistant", content |-> last.reply]

\* the second turn of a session fails while response.text is read
GatewayFailureWitness ==
    /\ last.kind = "ChatInput" /\ last.env = "text" /\ ~last.fault
    /\ Len(messages) = 4
    /\ StartsWith(messages[4]["content"], "Error:")

\* C6: a turn submitted with a key leaves the session as it was, followed by
\* the user's prompt and then the assistant's message with the gateway's text,
\* and calls the gateway once.
TurnAppendsTwo ==
    [][(last'.kind = "ChatInput" /\ (envKey # "" \/ inputKey # ""))
           => /\ messages' = messages \o
                     <<[role |-> "user", content |-> last'.arg],
                       [role |-> "assistant", content |-> last'.reply]>>
              /\ last'.calls = 1
              /\ last'.arg \in Prompts
              /\ last'.env = "ok" => last'.reply \in ReplyTexts]_vars

\* an answered turn on top of an earlier one
TurnAppendsTwoWitness ==
    /\ last.kind = "ChatInput" /\ last.calls = 1 /\ last.env = "ok"
    /\ Len(messages) = 4
    /\ messages[4] = [role |-> "assistant", content |-> last.reply]
    /\ messages[3] = [role |-> "user", content |-> last.arg]

\* C7: a prompt submitted with no key in the environment and none typed in
\* leaves the session as it was, calls no gateway, warns and raises nothing.
NoKeyNoTurn ==
    [][(last'.kind = "ChatInput" /\ envKey = "" /\ inputKey = "")
           => /\ messages' = messages
              /\ last'.calls = 0
              /\ last'.warned
              /\ ~last'.fault]_vars

\* a prompt submitted to a non-empty session after the key was removed
NoKeyNoTurnWitness ==
    /\ last.kind = "ChatInput" /\ last.calls = 0 /\ last.warned
    /\ envKey = "" /\ inputKey = ""
    /\ messages # <<>>

\* C8: on an empty session New Chat and Save Current Chat leave the directory
\* and its files as they were and the session empty, and no file ever holds a
\* log with an empty messages list.
EmptySessionWritesNothing ==
    [][/\ (last'.kind \in {"NewChat", "SaveCurrentChat"} /\ messages = <<>>)
           => /\ files' = files
              /\ dirExists' = dirExists
              /\ messages' = <<>>
              /\ ~last'.fault
       /\ \A f \in DOMAIN files' : ~LoadsTo(f, <<>>)']_vars

\* New Chat on an empty session beside a directory that holds a log
EmptySessionWitness ==
    /\ last.kind = "NewChat" /\ last.arg = "no messages"
    /\ messages = <<>>
    /\ \E f \in DOMAIN files : f \in DOMAIN saved

\* the sequence s backwards
Reverse(s) == [i \in 1..Len(s) |-> s[Len(s) + 1 - i]]

\* C9: the listing is the files from the last created to the first created,
\* and the files offered for loading are the first five of it, all of it when
\* it holds five or fewer.
ListingNewestFirst ==
    LET recent == RecentLogs IN
    /\ LogFiles = Reverse(order)
    /\ Len(recent) = Min(5, Len(order))
    /\ \A i \in 1..Len(recent) : recent[i] = order[Len(order) + 1 - i]

\* more than five logs, saved on both sides of midnight of December 31
ListingWitness ==
    /\ Len(order) > 5
    /\ Len(RecentLogs) = 5
    /\ \E f \in DOMAIN files : SubSeq(f, 6, 9) = "2025"
    /\ \E f \in DOMAIN files : SubSeq(f, 6, 9) = "2026"

\* C10: when the save of New Chat fails the run ends in a fault with the
\* session as it was, and New Chat empties a non-empty session only when the
\* save wrote the session's messages without raising.
FailedSaveKeepsSession ==
    [][(last'.kind = "NewChat" /\ messages # <<>>)
           => /\ last'.env # "ok" => (last'.fault /\ messages' = messages)
              /\ messages' = <<>> =>
                     /\ last'.env = "ok" /\ ~last'.fault
                     /\ LET r == LoadChatLog(FileName(Strftime(now)), "ok")'
                        IN  ~r.failed /\ r.messages = messages]_vars

\* New Chat whose json.dump failed, the session still in place
FailedSaveWitness ==
    /\ last.kind = "NewChat" /\ last.env = "write" /\ last.fault
    /\ messages # <<>>
    /\ FileName(Strftime(now)) \in DOMAIN files

=============================================================================
